---------------------------- MODULE Spec2Model ----------------------------
(***************************************************************************)
(* Model of src/ecomDashboard.py: the script loads and cleans the order    *)
(* line report (load_data), applies the sidebar filters and then computes, *)
(* section after section, the sales metrics, the operational efficiency    *)
(* ratios, the month-over-month growth, the category velocity scores and   *)
(* the promotion rollups.  The whole script body runs inside one           *)
(* try/except, so the first exception ends the run.                        *)
(*                                                                         *)
(* Floating point values are modelled as exact rationals extended with     *)
(* the IEEE specials NaN, +Inf and -Inf; pandas uses NaN as the marker of  *)
(* a missing numeric value.                                                *)
(***************************************************************************)
EXTENDS Integers, Sequences, FiniteSets, TLC

(***************************************************************************)
(* Bounds of the model.                                                    *)
(***************************************************************************)
MaxRows == 2

MaxCleanRows == 3

MaxMonths == 3

MaxDays == 8

(***************************************************************************)
(* Generic helpers.                                                        *)
(***************************************************************************)
Abs(x) == IF x < 0 THEN -x ELSE x

RECURSIVE Gcd(_, _)
Gcd(a, b) == IF b = 0 THEN a ELSE Gcd(b, a % b)

Range(s) == {s[i] : i \in 1..Len(s)}

(***************************************************************************)
(* float64 values: a rational n/d in lowest terms with d > 0, or one of    *)
(* the specials.                                                           *)
(***************************************************************************)
Num(n, d) ==
    LET s == IF d < 0 THEN -1 ELSE 1
        g == Gcd(Abs(n), Abs(d))
    IN  [k |-> "num", n |-> (s * n) \div g, d |-> (s * d) \div g]

NaN == [k |-> "nan", n |-> 0, d |-> 0]

PInf == [k |-> "inf", n |-> 1, d |-> 0]

NInf == [k |-> "inf", n |-> -1, d |-> 0]

Zero == Num(0, 1)

IsNum(x) == x.k = "num"

IsNaN(x) == x.k = "nan"

IsInf(x) == x.k = "inf"

Sign(x) == IF x.n > 0 THEN 1 ELSE IF x.n < 0 THEN -1 ELSE 0

FNeg(a) == IF IsNaN(a) THEN NaN ELSE [a EXCEPT !.n = -a.n]

FAdd(a, b) ==
    IF IsNaN(a) \/ IsNaN(b) THEN NaN
    ELSE IF IsInf(a) /\ IsInf(b) THEN (IF a.n = b.n THEN a ELSE NaN)
    ELSE IF IsInf(a) THEN a
    ELSE IF IsInf(b) THEN b
    ELSE Num(a.n * b.d + b.n * a.d, a.d * b.d)

FSub(a, b) == FAdd(a, FNeg(b))

FMul(a, b) ==
    IF IsNaN(a) \/ IsNaN(b) THEN NaN
    ELSE IF IsInf(a) \/ IsInf(b)
         THEN (IF Sign(a) * Sign(b) = 0 THEN NaN
               ELSE IF Sign(a) * Sign(b) > 0 THEN PInf ELSE NInf)
    ELSE Num(a.n * b.n, a.d * b.d)

\* numpy / pandas float division: x/0 is +-Inf, 0/0 is NaN, no exception.
FDiv(a, b) ==
    IF IsNaN(a) \/ IsNaN(b) THEN NaN
    ELSE IF IsInf(a) THEN (IF IsInf(b) THEN NaN
                           ELSE IF Sign(b) < 0 THEN FNeg(a) ELSE a)
    ELSE IF IsInf(b) THEN Zero
    ELSE IF b.n = 0 THEN (IF a.n = 0 THEN NaN
                          ELSE IF a.n > 0 THEN PInf ELSE NInf)
    ELSE Num(a.n * b.d, a.d * b.n)

\* a <= b on floats; every comparison with NaN is false.
FLeq(a, b) ==
    IF IsNaN(a) \/ IsNaN(b) THEN FALSE
    ELSE IF IsInf(a) THEN (a.n < 0 \/ a = b)
    ELSE IF IsInf(b) THEN b.n > 0
    ELSE a.n * b.d <= b.n * a.d


(***************************************************************************)
(* Raw cells as pd.read_csv yields them.  A numeric cell is a number, a    *)
(* text that is no number, or empty (NaN); a date cell is empty or a text  *)
(* of three numeric fields around a separator; a text cell is a string or  *)
(* empty.                                                                  *)
(***************************************************************************)
NumCell(v) == [t |-> "num", v |-> v]

BadNumCell == [t |-> "str", v |-> 0]

NanNumCell == [t |-> "nan", v |-> 0]

DateCell(sep, a, b, c) == [t |-> "txt", sep |-> sep, a |-> a, b |-> b, c |-> c]

NanDateCell == [t |-> "nan", sep |-> "", a |-> 0, b |-> 0, c |-> 0]

StrCell(v) == [t |-> "str", v |-> v]

NanStrCell == [t |-> "nan", v |-> ""]

RawRow(oid, date, amount, qty, cat, state, status, promo) ==
    [OrderID |-> oid, Date |-> date, Amount |-> amount, Qty |-> qty,
     Category |-> cat, ship_state |-> state, Status |-> status,
     promotion_ids |-> promo]

(***************************************************************************)
(* Calendar dates <<year, month, day>> and monthly periods <<year, month>>.*)
(***************************************************************************)
NaT == <<0, 0, 0>>

IsLeap(y) == (y % 4 = 0 /\ y % 100 # 0) \/ y % 400 = 0

DaysInMonth(y, m) ==
    IF m = 2 THEN (IF IsLeap(y) THEN 29 ELSE 28)
    ELSE IF m \in {4, 6, 9, 11} THEN 30 ELSE 31

DateOrd(dt) == dt[1] * 10000 + dt[2] * 100 + dt[3]

DateLeq(a, b) == DateOrd(a) <= DateOrd(b)

to_period_M(dt) == <<dt[1], dt[2]>>

PeriodOrd(p) == p[1] * 100 + p[2]

\* strptime's %y: 69..99 are 1969..1999, 0..68 are 2000..2068.
TwoDigitYear(c) == IF c >= 69 THEN 1900 + c ELSE 2000 + c

\* pd.to_datetime(text, format='%m-%d-%y', errors='coerce') after astype(str):
\* an empty cell is the text 'nan'; whatever does not match is NaT.
to_datetime(cell) ==
    IF cell.t # "txt" THEN NaT
    ELSE IF cell.sep # "-" THEN NaT
    ELSE IF cell.c \notin 0..99 THEN NaT
    ELSE IF cell.a \notin 1..12 THEN NaT
    ELSE IF cell.b \notin 1..DaysInMonth(TwoDigitYear(cell.c), cell.a) THEN NaT
    ELSE <<TwoDigitYear(cell.c), cell.a, cell.b>>

\* pd.to_numeric(cell, errors='coerce')
to_numeric(cell) == IF cell.t = "num" THEN Num(cell.v, 1) ELSE NaN

NoPromotion == "No Promotion"

\* fillna that leaves the empty cells empty.
fillna_Unfilled(cell, value) == cell.v

\* Series.fillna(value)
fillna(cell, value) == IF cell.t = "nan" THEN value ELSE cell.v

(***************************************************************************)
(* load_data: the cleaning of the parsed rows.                             *)
(***************************************************************************)
CleanRow(r, i) ==
    [idx |-> i, OrderID |-> r.OrderID, Date |-> to_datetime(r.Date),
     Amount |-> to_numeric(r.Amount), Qty |-> to_numeric(r.Qty),
     Category |-> r.Category, ship_state |-> r.ship_state, Status |-> r.Status,
     promotion_ids |-> fillna(r.promotion_ids, NoPromotion)]

\* DropNaDate that drops nothing.
DropNaDate_KeepAll(rows) == rows

\* df.dropna(subset=['Date'])
DropNaDate(rows) == SelectSeq(rows, LAMBDA r : r.Date # NaT)

Normalize(rows) == DropNaDate([i \in 1..Len(rows) |-> CleanRow(rows[i], i)])

(***************************************************************************)
(* pandas building blocks.                                                 *)
(***************************************************************************)

\* frame[column]
AmountCol(rows) == [i \in 1..Len(rows) |-> rows[i].Amount]

QtyCol(rows) == [i \in 1..Len(rows) |-> rows[i].Qty]

CountCol(rows) == [i \in 1..Len(rows) |-> rows[i].OrderID]

MoMCol(rows) == [i \in 1..Len(rows) |-> rows[i].MoM]

ScoreCol(rows) == [i \in 1..Len(rows) |-> rows[i].Score]

RECURSIVE SumFrom(_, _)
SumFrom(xs, i) ==
    IF i > Len(xs) THEN Zero
    ELSE IF IsNaN(xs[i]) THEN SumFrom(xs, i + 1)
    ELSE FAdd(xs[i], SumFrom(xs, i + 1))

\* Series.sum(): skipna, 0 for an empty or all-NaN series.
SeriesSum(xs) == SumFrom(xs, 1)

CountValid(xs) == Cardinality({i \in 1..Len(xs) : ~IsNaN(xs[i])})

\* Series.mean(): skipna, NaN for an empty or all-NaN series.
SeriesMean(xs) ==
    IF CountValid(xs) = 0 THEN NaN
    ELSE FDiv(SeriesSum(xs), Num(CountValid(xs), 1))

\* Series.max(): skipna, NaN for an empty or all-NaN series.
SeriesMax(xs) ==
    LET valid == {i \in 1..Len(xs) : ~IsNaN(xs[i])}
    IN  IF valid = {} THEN NaN
        ELSE xs[CHOOSE i \in valid : \A j \in valid : FLeq(xs[j], xs[i])]

\* Series.idxmax(): first position of the maximum, 0 where pandas raises
\* ValueError (empty or all-NaN series).
idxmax(xs) ==
    LET valid == {i \in 1..Len(xs) : ~IsNaN(xs[i])}
        best  == {i \in valid : \A j \in valid : FLeq(xs[j], xs[i])}
    IN  IF valid = {} THEN 0
        ELSE CHOOSE i \in best : \A j \in best : i <= j

\* Series.nunique() of the 'Order ID' column: a Python int.
nunique(rows) == Cardinality({rows[i].OrderID : i \in 1..Len(rows)})

RECURSIVE SortInts(_)
SortInts(S) ==
    IF S = {} THEN <<>>
    ELSE LET m == CHOOSE x \in S : \A y \in S : x <= y
         IN  <<m>> \o SortInts(S \ {m})

\* The strings of the model in lexicographic order (the order groupby sorts
\* its keys in).
Lexicon == <<"A", "B", "C", "No Promotion", "P1", "P2">>

StrRank(s) == CHOOSE i \in 1..Len(Lexicon) : Lexicon[i] = s

SortStrs(S) ==
    LET ranks == SortInts({StrRank(x) : x \in S})
    IN  [i \in 1..Len(ranks) |-> Lexicon[ranks[i]]]

\* DataFrame.sort_values(key, ascending=False): descending, NaN last, equal
\* keys in their previous order (the frames here are far below the length at
\* which numpy's default sort stops being an insertion sort).
Before(a, b) == ~IsNaN(a) /\ (IsNaN(b) \/ (FLeq(b, a) /\ a # b))

SortDesc(rows, keys) ==
    LET n == Len(rows)
        pos(i) == 1 + Cardinality({j \in 1..n :
                        \/ Before(keys[j], keys[i])
                        \/ (~Before(keys[i], keys[j]) /\ j < i)})
    IN  [p \in 1..n |-> rows[CHOOSE i \in 1..n : pos(i) = p]]

(***************************************************************************)
(* Sidebar filters (lines 128-135).                                        *)
(***************************************************************************)
All == "All"

\* DateMask with the end of the range left out.
DateMask_ExclusiveEnd(r, range) ==
    DateLeq(range[1], r.Date) /\ DateOrd(r.Date) < DateOrd(range[2])

DateMask(r, range) == DateLeq(range[1], r.Date) /\ DateLeq(r.Date, range[2])

CategoryMatch(r, cat) == r.Category = cat

RegionMatch(r, reg) == r.ship_state = reg

ApplyFilters(d, range, cat, reg) ==
    LET masked == SelectSeq(d, LAMBDA r : DateMask(r, range))
        byCat  == IF cat # All
                  THEN SelectSeq(masked, LAMBDA r : CategoryMatch(r, cat))
                  ELSE masked
    IN  IF reg # All
        THEN SelectSeq(byCat, LAMBDA r : RegionMatch(r, reg))
        ELSE byCat

(***************************************************************************)
(* 1. Sales performance (lines 142-156).                                   *)
(***************************************************************************)

TotalSales(f) == SeriesSum(AmountCol(f))

\* TotalOrders counting rows instead of distinct order ids.
TotalOrders_RowCount(f) == Len(f)

TotalOrders(f) == nunique(f)

\* Aov without its guard against an empty selection.
Aov_Unguarded(sales, orders) == FDiv(sales, Num(orders, 1))

Aov(sales, orders) == IF orders > 0 THEN FDiv(sales, Num(orders, 1)) ELSE Zero

TotalUnits(f) == SeriesSum(QtyCol(f))

(***************************************************************************)
(* 5. Operational efficiency (lines 276-288).  cancelled, promotion_usage  *)
(* and total_orders are Python ints: dividing by a zero total_orders       *)
(* raises ZeroDivisionError.                                               *)
(***************************************************************************)
Cancelled(f) == nunique(SelectSeq(f, LAMBDA r : r.Status = "Cancelled"))

PromotionUsage(f) == nunique(SelectSeq(f, LAMBDA r : r.promotion_ids # NoPromotion))

IntDivRaises(a, b) == b = 0

Rate(count, orders) == FMul(FDiv(Num(count, 1), Num(orders, 1)), Num(100, 1))

AvgQtyPerOrder(f) == SeriesMean(QtyCol(f))

(***************************************************************************)
(* 6. Month-over-month growth (lines 320-325, 375-388).                    *)
(***************************************************************************)
PeriodFromOrd(o) == <<o \div 100, o % 100>>

MonthlySales(f) ==
    LET months == SortInts({PeriodOrd(to_period_M(f[i].Date)) : i \in 1..Len(f)})
    IN  [m \in 1..Len(months) |->
            [Date   |-> PeriodFromOrd(months[m]),
             Amount |-> SeriesSum(AmountCol(
                 SelectSeq(f, LAMBDA r : PeriodOrd(to_period_M(r.Date)) = months[m])))]]

\* Series.pct_change(): x / x.shift(1) - 1, NaN in the first position.  (The
\* default forward fill of NaN never applies: a monthly sum is never NaN.)
pct_change(xs) ==
    [i \in 1..Len(xs) |->
        IF i = 1 THEN NaN ELSE FSub(FDiv(xs[i], xs[i - 1]), Num(1, 1))]

MoMGrowthRate(xs) ==
    LET pc_ == pct_change(xs)
    IN  [i \in 1..Len(xs) |-> FMul(pc_[i], Num(100, 1))]

MonthlySalesDf(f) ==
    LET ms == MonthlySales(f)
        g  == MoMGrowthRate(AmountCol(ms))
    IN  [i \in 1..Len(ms) |->
            [Date |-> ms[i].Date, Amount |-> ms[i].Amount, MoM |-> g[i]]]

AvgGrowth(msdf) == SeriesMean(MoMCol(msdf))

(***************************************************************************)
(* 7. Sales velocity (lines 395-419, 457-478).                             *)
(***************************************************************************)
RollingWindow == 7

DateFromOrd(o) == <<o \div 10000, (o \div 100) % 100, o % 100>>

\* groupby(['Date', 'Category']).agg(Qty sum, Amount sum, Order ID nunique):
\* one row per (date, category) present, by date and then by category.
DailyCategorySales(f) ==
    LET days == SortInts({DateOrd(f[i].Date) : i \in 1..Len(f)})
        cats == SortStrs({f[i].Category : i \in 1..Len(f)})
        grp(dy, c) == SelectSeq(f, LAMBDA r : DateOrd(r.Date) = dy /\ r.Category = c)
        row(dy, c) == [Date     |-> DateFromOrd(dy),
                       Category |-> c,
                       Qty      |-> SeriesSum(QtyCol(grp(dy, c))),
                       Amount   |-> SeriesSum(AmountCol(grp(dy, c))),
                       OrderID  |-> Num(nunique(grp(dy, c)), 1)]
        cells == [k \in 1..(Len(days) * Len(cats)) |->
                     <<days[((k - 1) \div Len(cats)) + 1],
                       cats[((k - 1) % Len(cats)) + 1]>>]
        present == SelectSeq(cells, LAMBDA dc : grp(dc[1], dc[2]) # <<>>)
    IN  [k \in 1..Len(present) |-> row(present[k][1], present[k][2])]

\* A mean over all the samples so far, whatever the window.
RollingMean_Expanding(xs, w) ==
    [i \in 1..Len(xs) |-> SeriesMean(SubSeq(xs, 1, i))]

\* Series.rolling(w, min_periods=1).mean()
RollingMean(xs, w) ==
    [i \in 1..Len(xs) |->
        SeriesMean(SubSeq(xs, IF i - w + 1 < 1 THEN 1 ELSE i - w + 1, i))]

\* lambda x: x.rolling(7, min_periods=1).mean().mean()
Smoothed(xs) == SeriesMean(RollingMean(xs, RollingWindow))

CategoryVelocityRaw(f) ==
    LET daily == DailyCategorySales(f)
        cats  == SortStrs({daily[i].Category : i \in 1..Len(daily)})
        of(c) == SelectSeq(daily, LAMBDA r : r.Category = c)
    IN  [k \in 1..Len(cats) |->
            [Category |-> cats[k],
             Qty      |-> Smoothed(QtyCol(of(cats[k]))),
             Amount   |-> Smoothed(AmountCol(of(cats[k]))),
             OrderID  |-> Smoothed(CountCol(of(cats[k])))]]

VelocityScore(r, maxQty, maxAmount, maxOrders) ==
    FMul(FAdd(FAdd(FMul(FDiv(r.Qty, maxQty), Num(4, 10)),
                   FMul(FDiv(r.Amount, maxAmount), Num(4, 10))),
              FMul(FDiv(r.OrderID, maxOrders), Num(2, 10))),
         Num(100, 1))

CategoryVelocity(f) ==
    LET cv == CategoryVelocityRaw(f)
        mq == SeriesMax(QtyCol(cv))
        ma == SeriesMax(AmountCol(cv))
        mo == SeriesMax(CountCol(cv))
        scored == [k \in 1..Len(cv) |->
                     [Category |-> cv[k].Category, Qty |-> cv[k].Qty,
                      Amount |-> cv[k].Amount, OrderID |-> cv[k].OrderID,
                      Score |-> VelocityScore(cv[k], mq, ma, mo)]]
    IN  SortDesc(scored, ScoreCol(scored))

(***************************************************************************)
(* 8. Promotion analysis (lines 506-522, 560-581).                         *)
(***************************************************************************)
PromoGroup(f, p) == SelectSeq(f, LAMBDA r : r.promotion_ids = p)

PromoAnalysis(f) ==
    LET promos == SortStrs({f[i].promotion_ids : i \in 1..Len(f)})
        row(p) ==
            LET g == PromoGroup(f, p)
                n == Num(nunique(g), 1)
            IN  [promotion_ids |-> p,
                 OrderID |-> n,
                 Amount  |-> SeriesSum(AmountCol(g)),
                 Qty     |-> SeriesSum(QtyCol(g)),
                 AvgOrderValue    |-> FDiv(SeriesSum(AmountCol(g)), n),
                 AvgUnitsPerOrder |-> FDiv(SeriesSum(QtyCol(g)), n)]
        grouped == [k \in 1..Len(promos) |-> row(promos[k])]
    IN  SortDesc(grouped, AmountCol(grouped))

(***************************************************************************)
(* The inputs: the report file and the sidebar selections.                 *)
(***************************************************************************)
SeqsUpTo(S, n) == UNION {[1..k -> S] : k \in 0..n}

Apr30 == DateCell("-", 4, 30, 22)

May01 == DateCell("-", 5, 1, 22)

\* Texts that do not match %m-%d-%y: no such day, another separator, a
\* four-digit year, no such month.
BadDates == {DateCell("-", 4, 31, 22), DateCell("/", 4, 30, 22),
             DateCell("-", 4, 30, 2022), DateCell("-", 13, 1, 22), NanDateCell}

\* Order lines of one day that differ in order id, amount, quantity, status
\* and promotion.
OrderRows ==
    {RawRow(o, Apr30, aq[1], aq[2], "A", "X", sp[1], sp[2]) :
        o \in {"o1", "o2"},
        aq \in {<<NumCell(100), NumCell(1)>>, <<BadNumCell, NumCell(2)>>},
        sp \in {<<"Cancelled", NanStrCell>>, <<"Shipped", StrCell("P1")>>,
                <<"Shipped", NanStrCell>>}}

\* Order lines that differ in date validity and in which numeric cell is
\* unusable.
CleanRows ==
    {RawRow("o1", d, aq[1], aq[2], "A", "X", "Shipped", NanStrCell) :
        d \in {Apr30, DateCell("-", 4, 31, 22)},
        aq \in {<<NumCell(100), NumCell(1)>>, <<BadNumCell, NumCell(2)>>,
                <<NumCell(100), NanNumCell>>}}

\* One line per kind of date text, valid ones (a leap day, a year of the
\* last century) included.
DateRows ==
    {RawRow("o1", d, NumCell(100), NumCell(1), "A", "X", "Shipped", NanStrCell) :
        d \in BadDates \cup {Apr30, DateCell("-", 2, 29, 20), DateCell("-", 12, 31, 99)}}

\* Order lines that differ in date, category and region.
RegionRows ==
    {RawRow("o1", d, NumCell(100), NumCell(1), c, st, "Shipped", NanStrCell) :
        d \in {Apr30, May01}, c \in {"A", "B"}, st \in {"X", "Y"}}

\* Order lines that differ in day, category and volume.
VelocityRows ==
    {RawRow("o1", d, aq[1], aq[2], c, "X", "Shipped", StrCell("P1")) :
        d \in {DateCell("-", 4, 29, 22), Apr30},
        c \in {"A", "B"},
        aq \in {<<NumCell(100), NumCell(1)>>, <<NumCell(0), NumCell(0)>>,
                <<NumCell(300), NumCell(2)>>}}

\* The k-th line is dated in the k-th month from April 2022 on, or on April
\* 30th, and differs in amount.
TrendRows(k) ==
    {RawRow("o1", d, NumCell(a), NumCell(1), "A", "X", "Shipped", StrCell("P1")) :
        d \in {DateCell("-", 3 + k, 15, 22), Apr30},
        a \in {0, 1000, 1500}}

\* The k-th line is dated on the 3k-th of April 2022, so the days are three
\* calendar days apart; the first two lines differ in volume.
WindowRows(k) ==
    {RawRow("o1", DateCell("-", 4, 3 * k, 22), NumCell(100 * q), NumCell(q),
            "A", "X", "Shipped", StrCell("P1")) :
        q \in (IF k <= 2 THEN {1, 3} ELSE {2})}

RECURSIVE WindowReportsOf(_)
WindowReportsOf(k) ==
    IF k = 0 THEN {<<>>}
    ELSE {Append(rs, r) : rs \in WindowReportsOf(k - 1), r \in WindowRows(k)}

WindowReports == UNION {WindowReportsOf(k) : k \in 0..MaxDays}

TrendReports ==
    UNION {{rs \in [1..k -> UNION {TrendRows(j) : j \in 1..k}] :
                \A j \in 1..k : rs[j] \in TrendRows(j)} : k \in 0..MaxMonths}

Reports ==
    SeqsUpTo(OrderRows, MaxRows) \cup SeqsUpTo(CleanRows, MaxCleanRows)
        \cup SeqsUpTo(DateRows, MaxRows) \cup SeqsUpTo(RegionRows, MaxRows)
        \cup SeqsUpTo(VelocityRows, MaxRows) \cup TrendReports
        \cup WindowReports

\* What the body of load_data can raise: no file or an empty file at
\* read_csv (line 77), a report without a Date column (line 83).
LoadFaults == {"FileNotFoundError", "EmptyDataError", "KeyError"}

\* Dates the user may pick in the date_input widget.
PickDates == {<<2022, 4, 30>>, <<2022, 5, 1>>}

\* [df['Date'].min(), df['Date'].max()], the widget's default.
DefaultRange(d) ==
    LET ords == {DateOrd(d[i].Date) : i \in 1..Len(d)}
    IN  IF ords = {} THEN {}
        ELSE {<<DateFromOrd(CHOOSE x \in ords : \A y \in ords : x <= y),
                DateFromOrd(CHOOSE x \in ords : \A y \in ords : x >= y)>>}

DateRanges(d) ==
    DefaultRange(d) \cup {r \in PickDates \X PickDates : DateLeq(r[1], r[2])}

CategoryOptions(d) == {All} \cup {d[i].Category : i \in 1..Len(d)}

RegionOptions(d) == {All} \cup {d[i].ship_state : i \in 1..Len(d)}

(***************************************************************************)
(* State.                                                                  *)
(***************************************************************************)
VARIABLES
    csv,                \* the report file: does it load, the cause if not, its rows
    pc,                 \* the section of the script that runs next
    error,              \* the exception the top-level handler reported
    df,                 \* load_data's result
    date_range, selected_category, selected_region,
    filtered_df,
    total_sales, total_orders, aov, total_units,
    cancellation_rate, promotion_rate, avg_qty_per_order,
    monthly_sales_df, avg_growth, highest_month,
    category_velocity, top_velocity,
    promo_analysis, top_promo

inputs == <<csv>>

loaded == <<df>>

filters == <<date_range, selected_category, selected_region, filtered_df>>

sales == <<total_sales, total_orders, aov, total_units>>

efficiency == <<cancellation_rate, promotion_rate, avg_qty_per_order>>

trends == <<monthly_sales_df>>

summary == <<avg_growth, highest_month>>

velocity == <<category_velocity>>

insights == <<top_velocity>>

promo == <<promo_analysis>>

promo_summary == <<top_promo>>

vars == <<csv, pc, error, df, date_range, selected_category, selected_region,
          filtered_df, total_sales, total_orders, aov, total_units,
          cancellation_rate, promotion_rate, avg_qty_per_order,
          monthly_sales_df, avg_growth, highest_month,
          category_velocity, top_velocity, promo_analysis, top_promo>>

\* The sections in the order the script runs them.
Sections == <<"load", "sidebar", "sales", "efficiency", "trends", "summary",
              "velocity", "insights", "promo", "promo_summary", "done">>

SectionNo(s) == CHOOSE i \in 1..Len(Sections) : Sections[i] = s

\* Section s has run to its end in this run.
Completed(s) == pc # "error" /\ SectionNo(pc) > SectionNo(s)

Init ==
    /\ csv \in {[readable |-> FALSE, cause |-> c, rows |-> <<>>] : c \in LoadFaults}
                  \cup {[readable |-> TRUE, cause |-> "", rows |-> rs] : rs \in Reports}
    /\ pc = "load"
    /\ error = ""
    /\ df = <<>>
    /\ date_range = <<NaT, NaT>>
    /\ selected_category = All
    /\ selected_region = All
    /\ filtered_df = <<>>
    /\ total_sales = NaN
    /\ total_orders = 0
    /\ aov = NaN
    /\ total_units = NaN
    /\ cancellation_rate = NaN
    /\ promotion_rate = NaN
    /\ avg_qty_per_order = NaN
    /\ monthly_sales_df = <<>>
    /\ avg_growth = NaN
    /\ highest_month = 0
    /\ category_velocity = <<>>
    /\ top_velocity = 0
    /\ promo_analysis = <<>>
    /\ top_promo = 0

\* The top-level except clause (lines 693-694): report and stop.
Raise(e) == pc' = "error" /\ error' = e

\* A load that hands back an empty frame instead of failing.
LoadData_ReturnsEmpty ==
    /\ pc = "load"
    /\ df' = IF csv.readable THEN Normalize(csv.rows) ELSE <<>>
    /\ pc' = "sidebar"
    /\ UNCHANGED <<inputs, error, filters, sales, efficiency, trends, summary,
                   velocity, insights, promo, promo_summary>>

\* Lines 74-109: read and clean the report; a failure is caught, shown and
\* re-raised (lines 103-105), so df is never assigned.
LoadData ==
    /\ pc = "load"
    /\ IF csv.readable
       THEN /\ df' = Normalize(csv.rows)
            /\ pc' = "sidebar"
            /\ UNCHANGED error
       ELSE /\ Raise(csv.cause)
            /\ UNCHANGED df
    /\ UNCHANGED <<inputs, filters, sales, efficiency, trends, summary,
                   velocity, insights, promo, promo_summary>>

\* Lines 111-135: the user's selections, then the filters.
Sidebar ==
    /\ pc = "sidebar"
    /\ \E range \in DateRanges(df), cat \in CategoryOptions(df),
          reg \in RegionOptions(df) :
          /\ date_range' = range
          /\ selected_category' = cat
          /\ selected_region' = reg
          /\ filtered_df' = ApplyFilters(df, range, cat, reg)
    /\ pc' = "sales"
    /\ UNCHANGED <<inputs, error, loaded, sales, efficiency, trends, summary,
                   velocity, insights, promo, promo_summary>>

\* Lines 142-156.
SalesPerformance ==
    /\ pc = "sales"
    /\ total_sales' = TotalSales(filtered_df)
    /\ total_orders' = TotalOrders(filtered_df)
    /\ aov' = Aov(TotalSales(filtered_df), TotalOrders(filtered_df))
    /\ total_units' = TotalUnits(filtered_df)
    /\ pc' = "efficiency"
    /\ UNCHANGED <<inputs, error, loaded, filters, efficiency, trends, summary,
                   velocity, insights, promo, promo_summary>>

\* Lines 276-288.
OperationalEfficiency ==
    /\ pc = "efficiency"
    /\ IF IntDivRaises(Cancelled(filtered_df), total_orders)
       THEN /\ Raise("ZeroDivisionError")
            /\ UNCHANGED efficiency
       ELSE /\ cancellation_rate' = Rate(Cancelled(filtered_df), total_orders)
            /\ promotion_rate' = Rate(PromotionUsage(filtered_df), total_orders)
            /\ avg_qty_per_order' = AvgQtyPerOrder(filtered_df)
            /\ pc' = "trends"
            /\ UNCHANGED error
    /\ UNCHANGED <<inputs, loaded, filters, sales, trends, summary,
                   velocity, insights, promo, promo_summary>>

\* Lines 320-325.
Trends ==
    /\ pc = "trends"
    /\ monthly_sales_df' = MonthlySalesDf(filtered_df)
    /\ pc' = "summary"
    /\ UNCHANGED <<inputs, error, loaded, filters, sales, efficiency, summary,
                   velocity, insights, promo, promo_summary>>

\* Lines 374-388: iloc[-1] raises IndexError and idxmax raises ValueError on
\* an empty frame.
MonthlySummary ==
    /\ pc = "summary"
    /\ IF monthly_sales_df = <<>>
       THEN /\ Raise("IndexError")
            /\ UNCHANGED summary
       ELSE /\ avg_growth' = AvgGrowth(monthly_sales_df)
            /\ highest_month' = idxmax(AmountCol(monthly_sales_df))
            /\ pc' = "velocity"
            /\ UNCHANGED error
    /\ UNCHANGED <<inputs, loaded, filters, sales, efficiency, trends,
                   velocity, insights, promo, promo_summary>>

\* Lines 395-419.
Velocity ==
    /\ pc = "velocity"
    /\ category_velocity' = CategoryVelocity(filtered_df)
    /\ pc' = "insights"
    /\ UNCHANGED <<inputs, error, loaded, filters, sales, efficiency, trends,
                   summary, insights, promo, promo_summary>>

\* Lines 456-478: iloc[0] raises IndexError on an empty frame.
VelocityInsights ==
    /\ pc = "insights"
    /\ IF category_velocity = <<>>
       THEN /\ Raise("IndexError")
            /\ UNCHANGED insights
       ELSE /\ top_velocity' = 1
            /\ pc' = "promo"
            /\ UNCHANGED error
    /\ UNCHANGED <<inputs, loaded, filters, sales, efficiency, trends, summary,
                   velocity, promo, promo_summary>>

\* Lines 506-522.
PromotionAnalysis ==
    /\ pc = "promo"
    /\ promo_analysis' = PromoAnalysis(filtered_df)
    /\ pc' = "promo_summary"
    /\ UNCHANGED <<inputs, error, loaded, filters, sales, efficiency, trends,
                   summary, velocity, insights, promo_summary>>

\* Lines 559-581: iloc[0] raises IndexError on an empty frame.
PromoSummary ==
    /\ pc = "promo_summary"
    /\ IF promo_analysis = <<>>
       THEN /\ Raise("IndexError")
            /\ UNCHANGED promo_summary
       ELSE /\ top_promo' = 1
            /\ pc' = "done"
            /\ UNCHANGED error
    /\ UNCHANGED <<inputs, loaded, filters, sales, efficiency, trends, summary,
                   velocity, insights, promo>>

Next ==
    \/ LoadData
    \/ Sidebar
    \/ SalesPerformance
    \/ OperationalEfficiency
    \/ Trends
    \/ MonthlySummary
    \/ Velocity
    \/ VelocityInsights
    \/ PromotionAnalysis
    \/ PromoSummary

Spec == Init /\ [][Next]_vars

(***************************************************************************)
(* Reference quantities the properties below compare the results with.     *)
(***************************************************************************)
\* Sum of the present (non-NaN) values of a series of whole numbers, every
\* position counted.
RECURSIVE IdxSum(_, _)
IdxSum(xs, S) ==
    IF S = {} THEN 0
    ELSE LET i == CHOOSE j \in S : TRUE
         IN  (IF IsNum(xs[i]) THEN xs[i].n ELSE 0) + IdxSum(xs, S \ {i})

PresentSum(xs) == IdxSum(xs, 1..Len(xs))

PresentCount(xs) == Cardinality({i \in 1..Len(xs) : IsNum(xs[i])})

DistinctOrders(rows, S) == Cardinality({rows[i].OrderID : i \in S})

Percent(count, total) == Num(100 * count, total)

(***************************************************************************)
(* C1.  For a filtered set with total_orders = 0 (the empty one included)  *)
(* the operational-efficiency section raises nothing and reports           *)
(* cancellation_rate = 0 and promotion_usage_rate = 0; otherwise the rates *)
(* are the distinct cancelled, respectively promoted, order ids over       *)
(* total_orders, times 100.  The code divides two Python ints without a    *)
(* guard, so the empty selection ends the run in ZeroDivisionError.        *)
(***************************************************************************)
C1_RatesGuarded ==
    /\ error # "ZeroDivisionError"
    /\ Completed("efficiency") =>
          IF total_orders = 0
          THEN cancellation_rate = Zero /\ promotion_rate = Zero
          ELSE /\ cancellation_rate =
                    Percent(DistinctOrders(filtered_df,
                                {i \in 1..Len(filtered_df) :
                                    filtered_df[i].Status = "Cancelled"}),
                            total_orders)
               /\ promotion_rate =
                    Percent(DistinctOrders(filtered_df,
                                {i \in 1..Len(filtered_df) :
                                    filtered_df[i].promotion_ids # "No Promotion"}),
                            total_orders)

(***************************************************************************)
(* C2.  average_order_value is total_sales / total_orders when             *)
(* total_orders > 0, so that average_order_value * total_orders =          *)
(* total_sales; with total_orders = 0 both it and total_sales are 0.       *)
(***************************************************************************)
C2_AovTimesOrders ==
    Completed("sales") =>
        IF total_orders > 0
        THEN /\ IsNum(aov)
             /\ IsNum(total_sales)
             /\ aov.n * total_orders * total_sales.d = total_sales.n * aov.d
        ELSE aov = Zero /\ total_sales = Zero

C2_Witness ==
    /\ Completed("sales")
    /\ total_orders = 2
    /\ total_sales = Num(100, 1)
    /\ aov = Num(50, 1)

(***************************************************************************)
(* C3.  A row of the dataset is in the filtered set exactly when its date  *)
(* lies between the two bounds, both included, its category is the         *)
(* selected one unless "All" is selected, and its ship state is the        *)
(* selected one unless "All" is selected; the filtered set is a part of    *)
(* the dataset, in the dataset's order, and the dataset stays what         *)
(* load_data returned.                                                     *)
(***************************************************************************)
Selected(r) ==
    /\ DateOrd(date_range[1]) <= DateOrd(r.Date)
    /\ DateOrd(r.Date) <= DateOrd(date_range[2])
    /\ (selected_category = "All" \/ r.Category = selected_category)
    /\ (selected_region = "All" \/ r.ship_state = selected_region)

C3_FilterExact ==
    Completed("sidebar") =>
        /\ \A i \in 1..Len(df) : (df[i] \in Range(filtered_df)) <=> Selected(df[i])
        /\ \A i \in 1..Len(filtered_df) : filtered_df[i] \in Range(df)
        /\ \A i, j \in 1..Len(filtered_df) :
              i < j => filtered_df[i].idx < filtered_df[j].idx
        /\ df = Normalize(csv.rows)

C3_Witness ==
    /\ Completed("sidebar")
    /\ selected_category # "All"
    /\ selected_region # "All"
    /\ filtered_df # <<>>
    /\ Len(filtered_df) < Len(df)
    /\ \E i \in 1..Len(filtered_df) : filtered_df[i].Date = date_range[2]
    /\ \E i \in 1..Len(df) : df[i].Category # selected_category

(***************************************************************************)
(* C4.  load_data keeps exactly the rows whose date text reads as          *)
(* month-day-two-digit-year, in their order and with that date; a kept row *)
(* whose amount or quantity is no number has only that field missing; and  *)
(* sums and means leave missing values out instead of counting them as 0.  *)
(***************************************************************************)
MonthLengths == <<31, 28, 31, 30, 31, 30, 31, 31, 30, 31, 30, 31>>

ReadsAsMDY(cell) ==
    /\ cell.t = "txt"
    /\ cell.sep = "-"
    /\ cell.a >= 1 /\ cell.a <= 12
    /\ cell.c >= 0 /\ cell.c <= 99
    /\ cell.b >= 1
    /\ \/ cell.b <= MonthLengths[cell.a]
       \/ cell.a = 2 /\ cell.b = 29 /\ cell.c % 4 = 0

Coerced(cell) == IF cell.t = "num" THEN Num(cell.v, 1) ELSE NaN

C4_NormalizerKeepsValidRows ==
    /\ Completed("load") =>
          /\ \A i \in 1..Len(csv.rows) :
                ReadsAsMDY(csv.rows[i].Date) <=> \E k \in 1..Len(df) : df[k].idx = i
          /\ \A k, l \in 1..Len(df) : k < l => df[k].idx < df[l].idx
          /\ \A k \in 1..Len(df) :
                LET r == csv.rows[df[k].idx]
                IN  /\ df[k].Date[2] = r.Date.a
                    /\ df[k].Date[3] = r.Date.b
                    /\ df[k].Date[1] % 100 = r.Date.c
                    /\ df[k].Amount = Coerced(r.Amount)
                    /\ df[k].Qty = Coerced(r.Qty)
                    /\ df[k].OrderID = r.OrderID
                    /\ df[k].Category = r.Category
                    /\ df[k].ship_state = r.ship_state
                    /\ df[k].Status = r.Status
    /\ Completed("sales") =>
          /\ total_sales = Num(PresentSum(AmountCol(filtered_df)), 1)
          /\ total_units = Num(PresentSum(QtyCol(filtered_df)), 1)
    /\ Completed("efficiency") /\ PresentCount(QtyCol(filtered_df)) > 0 =>
          avg_qty_per_order = Num(PresentSum(QtyCol(filtered_df)),
                                  PresentCount(QtyCol(filtered_df)))

C4_Witness ==
    /\ Completed("efficiency")
    /\ Len(csv.rows) = 3
    /\ Len(df) = 2
    /\ Len(filtered_df) = 2
    /\ \E k \in 1..2 : IsNaN(filtered_df[k].Qty) /\ IsNum(filtered_df[k].Amount)
    /\ \E k \in 1..2 : IsNaN(filtered_df[k].Amount) /\ IsNum(filtered_df[k].Qty)
    /\ avg_qty_per_order = Num(2, 1)
    /\ total_sales = Num(100, 1)

(***************************************************************************)
(* C5.  total_orders is the number of distinct order ids of the filtered   *)
(* set, while total_sales and total_units add up amount and quantity over  *)
(* every row, several rows of one order included.                          *)
(***************************************************************************)
C5_OrdersDistinctSumsNot ==
    Completed("sales") =>
        /\ total_orders = Cardinality({filtered_df[i].OrderID : i \in 1..Len(filtered_df)})
        /\ total_sales = Num(PresentSum(AmountCol(filtered_df)), 1)
        /\ total_units = Num(PresentSum(QtyCol(filtered_df)), 1)

C5_Witness ==
    /\ Completed("sales")
    /\ Len(filtered_df) = 2
    /\ filtered_df[1].OrderID = filtered_df[2].OrderID
    /\ total_orders = 1
    /\ total_sales = Num(200, 1)
    /\ total_units = Num(2, 1)

(***************************************************************************)
(* Growth and score values the properties speak of but no float is: the    *)
(* explicit "not applicable" outcome.                                      *)
(***************************************************************************)
NotApplicable == [k |-> "n/a", n |-> 0, d |-> 0]

RECURSIVE RatSum(_, _)
RatSum(xs, S) ==
    IF S = {} THEN Zero
    ELSE LET i == CHOOSE j \in S : TRUE
         IN  FAdd(xs[i], RatSum(xs, S \ {i}))

Growth == MoMCol(monthly_sales_df)

MonthAmount(i) == monthly_sales_df[i].Amount

(***************************************************************************)
(* C6.  In the monthly series, in chronological order, the growth rate of  *)
(* the first month is null and that of every later month i is the number   *)
(* (sales[i] - sales[i-1]) / sales[i-1] * 100, so that all but the first   *)
(* month have a defined growth value.  After a month without sales the     *)
(* code's pct_change yields Inf or NaN (the missing guard of C8).          *)
(***************************************************************************)
C6_GrowthSeries ==
    Completed("trends") =>
        /\ \A i \in 2..Len(monthly_sales_df) :
              PeriodOrd(monthly_sales_df[i - 1].Date) < PeriodOrd(monthly_sales_df[i].Date)
        /\ Len(monthly_sales_df) >= 1 => IsNaN(Growth[1])
        /\ \A i \in 2..Len(monthly_sales_df) :
              /\ IsNum(Growth[i])
              /\ Growth[i].n * MonthAmount(i - 1).n
                    = (MonthAmount(i).n - MonthAmount(i - 1).n) * 100 * Growth[i].d
        /\ Len(monthly_sales_df) >= 1 =>
              Cardinality({i \in 1..Len(monthly_sales_df) : IsNum(Growth[i])})
                  = Len(monthly_sales_df) - 1

(***************************************************************************)
(* C7.  average_monthly_growth is the mean of the defined growth values    *)
(* alone (sales 1000 then 1500 give 50.0), and with exactly one month of   *)
(* data it is the explicit "not applicable" outcome, not a number.  The    *)
(* code reports the float NaN for one month.                               *)
(***************************************************************************)
C7_AverageGrowth ==
    Completed("summary") =>
        /\ Len(monthly_sales_df) = 1 => avg_growth = NotApplicable
        /\ (/\ Len(monthly_sales_df) > 1
            /\ \A i \in 2..Len(monthly_sales_df) : IsNum(Growth[i])) =>
              avg_growth = FDiv(RatSum(Growth, 2..Len(monthly_sales_df)),
                                Num(Len(monthly_sales_df) - 1, 1))
        /\ (/\ Len(monthly_sales_df) = 2
            /\ MonthAmount(1) = Num(1000, 1)
            /\ MonthAmount(2) = Num(1500, 1)) => avg_growth = Num(50, 1)

(***************************************************************************)
(* C8.  No growth figure is NaN or infinite: the month after a month whose *)
(* sales are 0 has a growth rate that is "not applicable" (or 0), and the  *)
(* average growth computed from it is finite or "not applicable".  The     *)
(* code divides by the zero sales of the earlier month.                    *)
(***************************************************************************)
AfterZeroMonth ==
    {i \in 2..Len(monthly_sales_df) : MonthAmount(i - 1) = Zero}

C8_GrowthGuarded ==
    /\ Completed("trends") =>
          \A i \in AfterZeroMonth : Growth[i] = NotApplicable \/ Growth[i] = Zero
    /\ Completed("summary") /\ AfterZeroMonth # {} =>
          IsNum(avg_growth) \/ avg_growth = NotApplicable

(***************************************************************************)
(* C9.  For a non-empty filtered set every category's velocity_score is    *)
(* (norm_qty * 0.4 + norm_amount * 0.4 + norm_orders * 0.2) * 100 and lies *)
(* in [0, 100], a norm being the smoothed scalar over its maximum over the *)
(* categories and 0 when that maximum is 0; a single category scores 100.  *)
(* The code divides by the maximum unguarded: a zero maximum gives NaN.    *)
(***************************************************************************)
Norm(x, max) == IF max = Zero THEN Zero ELSE FDiv(x, max)

MaxOver(xs) == CHOOSE x \in Range(xs) : \A y \in Range(xs) : FLeq(y, x)

C9_ScoreInRange ==
    Completed("velocity") /\ filtered_df # <<>> =>
        /\ \A k \in 1..Len(category_velocity) :
              LET r == category_velocity[k]
                  nq == Norm(r.Qty, MaxOver(QtyCol(category_velocity)))
                  na == Norm(r.Amount, MaxOver(AmountCol(category_velocity)))
                  no == Norm(r.OrderID, MaxOver(CountCol(category_velocity)))
              IN  /\ IsNum(r.Score)
                  /\ FLeq(Zero, r.Score) /\ FLeq(r.Score, Num(100, 1))
                  /\ r.Score = FMul(FAdd(FAdd(FMul(nq, Num(2, 5)), FMul(na, Num(2, 5))),
                                         FMul(no, Num(1, 5))), Num(100, 1))
        /\ Len(category_velocity) = 1 => category_velocity[1].Score = Num(100, 1)

(***************************************************************************)
(* C10.  A row without a promotion id in the report gets promotion_ids =   *)
(* "No Promotion"; when the filtered set holds such rows, promo_analysis   *)
(* has exactly one "No Promotion" group and its order count, revenue and   *)
(* units are the distinct order ids, the amounts and the quantities of     *)
(* exactly those rows; every filtered row falls in exactly one group.      *)
(***************************************************************************)
SourceHasNoPromo(r) == csv.rows[r.idx].promotion_ids.t = "nan"

NoPromoRows == {i \in 1..Len(filtered_df) : SourceHasNoPromo(filtered_df[i])}

NoPromoGroups ==
    {k \in 1..Len(promo_analysis) : promo_analysis[k].promotion_ids = "No Promotion"}

C10_NoPromotionGroup ==
    /\ Completed("load") =>
          \A k \in 1..Len(df) :
              IF SourceHasNoPromo(df[k])
              THEN df[k].promotion_ids = "No Promotion"
              ELSE df[k].promotion_ids = csv.rows[df[k].idx].promotion_ids.v
    /\ Completed("promo") =>
          /\ Cardinality(NoPromoGroups) = (IF NoPromoRows = {} THEN 0 ELSE 1)
          /\ \A k \in NoPromoGroups :
                /\ promo_analysis[k].OrderID =
                      Num(Cardinality({filtered_df[i].OrderID : i \in NoPromoRows}), 1)
                /\ promo_analysis[k].Amount =
                      Num(IdxSum(AmountCol(filtered_df), NoPromoRows), 1)
                /\ promo_analysis[k].Qty =
                      Num(IdxSum(QtyCol(filtered_df), NoPromoRows), 1)
          /\ \A i \in 1..Len(filtered_df) :
                Cardinality({k \in 1..Len(promo_analysis) :
                    promo_analysis[k].promotion_ids = filtered_df[i].promotion_ids}) = 1

C10_Witness ==
    /\ Completed("promo")
    /\ Len(filtered_df) = 2
    /\ Cardinality(NoPromoRows) = 1
    /\ Len(promo_analysis) = 2
    /\ \E k \in NoPromoGroups :
          promo_analysis[k].OrderID = Num(1, 1) /\ promo_analysis[k].Amount = Num(100, 1)

(***************************************************************************)
(* C11: when loading or normalizing the report fails, the run ends at the  *)
(* top-level handler with the cause of the failure, no dataset has been    *)
(* returned, no filter and no engine has run, and nothing runs afterwards. *)
(***************************************************************************)
NothingRan ==
    /\ df = <<>>
    /\ date_range = <<NaT, NaT>> /\ selected_category = All
    /\ selected_region = All /\ filtered_df = <<>>
    /\ total_sales = NaN /\ total_orders = 0 /\ aov = NaN /\ total_units = NaN
    /\ cancellation_rate = NaN /\ promotion_rate = NaN
    /\ avg_qty_per_order = NaN
    /\ monthly_sales_df = <<>> /\ avg_growth = NaN /\ highest_month = 0
    /\ category_velocity = <<>> /\ top_velocity = 0
    /\ promo_analysis = <<>> /\ top_promo = 0

C11_LoadFailureTerminal ==
    (~csv.readable /\ pc # "load") =>
        /\ pc = "error"
        /\ error = csv.cause
        /\ NothingRan
        /\ ~ENABLED Next

C11_Witness ==
    /\ ~csv.readable
    /\ csv.cause = "KeyError"
    /\ pc = "error"
    /\ error = "KeyError"

(***************************************************************************)
(* C12: once the report is loaded and filtered, every engine produces its  *)
(* result whatever the filtered set is, the empty one included: no section *)
(* ends the run with an exception, so no engine is kept from its result by *)
(* another one.                                                            *)
(***************************************************************************)
C12_EnginesComplete ==
    (csv.readable /\ pc \notin {"load", "sidebar"}) => pc # "error"

(***************************************************************************)
(* C13: for every category of the filtered set, each smoothed scalar       *)
(* (units, revenue, distinct orders) is the mean, over the category's days *)
(* with data in chronological order, of the average of the daily values of *)
(* that day and of up to 6 days with data before it; the daily values are  *)
(* the sum of qty, the sum of amount and the number of distinct order ids  *)
(* of the (date, category) pair.                                           *)
(***************************************************************************)
RowsOf(f, c, dy) ==
    {i \in 1..Len(f) : f[i].Category = c /\ DateOrd(f[i].Date) = dy}

DaysOf(f, c) ==
    SortInts({DateOrd(f[i].Date) : i \in {j \in 1..Len(f) : f[j].Category = c}})

\* The first sample of the window that ends at sample i.
WindowStart(i) == IF i > 6 THEN i - 6 ELSE 1

RECURSIVE TotalOver(_, _, _)
TotalOver(v, lo, hi) == IF lo > hi THEN 0 ELSE v[hi] + TotalOver(v, lo, hi - 1)

\* Sum over the samples of (window total / window length), in 420ths: 420
\* is a multiple of every window length 1..7.
RECURSIVE WindowAverages(_, _)
WindowAverages(v, i) ==
    IF i = 0 THEN 0
    ELSE TotalOver(v, WindowStart(i), i) * (420 \div (i - WindowStart(i) + 1))
            + WindowAverages(v, i - 1)

MeanOfWindowAverages(v) == Num(WindowAverages(v, Len(v)), 420 * Len(v))

DailyUnits(f, c) ==
    [k \in 1..Len(DaysOf(f, c)) |-> IdxSum(QtyCol(f), RowsOf(f, c, DaysOf(f, c)[k]))]

DailyRevenue(f, c) ==
    [k \in 1..Len(DaysOf(f, c)) |-> IdxSum(AmountCol(f), RowsOf(f, c, DaysOf(f, c)[k]))]

DailyOrders(f, c) ==
    [k \in 1..Len(DaysOf(f, c)) |-> DistinctOrders(f, RowsOf(f, c, DaysOf(f, c)[k]))]

C13_SmoothedScalars ==
    Completed("velocity") =>
        /\ {category_velocity[k].Category : k \in 1..Len(category_velocity)}
               = {filtered_df[i].Category : i \in 1..Len(filtered_df)}
        /\ \A k \in 1..Len(category_velocity) :
              LET r == category_velocity[k]
              IN  /\ \A j \in 1..Len(category_velocity) :
                        category_velocity[j].Category = r.Category => j = k
                  /\ r.Qty = MeanOfWindowAverages(DailyUnits(filtered_df, r.Category))
                  /\ r.Amount = MeanOfWindowAverages(DailyRevenue(filtered_df, r.Category))
                  /\ r.OrderID = MeanOfWindowAverages(DailyOrders(filtered_df, r.Category))

\* A category with more than 7 days of data whose first day, which the
\* last day's window leaves out, sold something.
C13_Witness ==
    /\ Completed("velocity")
    /\ \E k \in 1..Len(category_velocity) :
          LET v == DailyUnits(filtered_df, category_velocity[k].Category)
          IN  /\ Len(v) > 7
              /\ TotalOver(v, WindowStart(Len(v)), Len(v)) # TotalOver(v, 1, Len(v))
              /\ v[1] # v[2]

=============================================================================
